---- MODULE Spec2Model ----
(***************************************************************************)
(* SigExtractor-Pro: the crop pipeline of services/imageProcessing.ts      *)
(* (cropImage, isDark, removeLinearStructures, applyBinarization).         *)
(*                                                                         *)
(* A raster is [width, height, data]; data is the row-major sequence of    *)
(* <<r, g, b, a>> pixels, the ImageData layout of the source (pixel i of   *)
(* the code is data[i + 1] here).  One cropImage invocation is a chain of  *)
(* steps; the stages of the synchronous part are separate steps so that    *)
(* the raster between two stages can be observed.                          *)
(***************************************************************************)
EXTENDS Integers, Sequences, FiniteSets, TLC

(* ------------------------------ bounds --------------------------------- *)
\* largest source raster of the geometry inputs
MaxW == 3
MaxH == 3
\* largest pixel count of a source raster drawn over the whole palette
PaletteCells == 4
\* largest pixel count of a source raster drawn over {black, white}
InkCells == 8
\* largest pixel count of a source raster of the repeated-call inputs
RepeatCells == 2
\* largest pixel count of a source raster drawn with every mask of its size
MaskCells == 3
\* largest pixel count of a source raster drawn with translucent pixels
AlphaCells == 3
\* how many extractions are drawn by hand, one after the deletion of the other
MaxCreated == 1
\* a scan is started while fewer extractions than this are listed
MaxScanned == 2
\* how many re-processing invocations may be waiting at a time
MaxInFlight == 2
\* the window of grid cells that may hold ink
WindowW == 7
WindowH == 4

VARIABLES
  pc,           \* position of the invocation: idle, borders, binarize, mask, loading, encode, done
  sourceImage,  \* argument: the source raster
  crop,         \* argument: the Rect, in natural pixels
  options,      \* argument: enhance, threshold, invert, removeBorders
  maskUrl,      \* argument: the eraser mask, or NoMask
  pixelX, pixelY, pixelWidth, pixelHeight,   \* the clamped rectangle
  canvas,       \* the canvas of the invocation (its backing store)
  gco,          \* ctx.globalCompositeOperation
  result,       \* the resolved value of the promise, or Pending
  log,          \* history: <<stage name, canvas after the stage>> of every stage that ran
  prev          \* history: a completed earlier invocation, <<arguments, result>>

\* detectSignatures
VARIABLES
  dpc,          \* position of the detection: idle, dilate, scan, fill, filter, done
  imageElement, \* argument: the page
  detectOptions,\* argument: minWidth, maxWidth, minHeight
  grid,         \* the density grid: the indices of the cells that hold 1
  smearedGrid,  \* the dilated grid: the indices of the cells that hold 1
  labels,       \* the label array: cell index -> label, for the cells whose label is not 0
  currentLabel, \* the next label
  scanFrom,     \* the cell index the outer loops have reached
  blob,         \* label, bounds and count of the blob being filled
  stack,        \* the work list of the fill
  blobBounds,   \* label -> bounds
  rects,        \* the resolved value of the promise
  writes        \* history: cell index -> how often it was labelled and pushed

\* App
VARIABLES
  extractions,  \* the extractions state: a sequence of Extraction records
  calls,        \* the updateExtractionSettings and handleSaveEditedMask invocations
                \* that are waiting at an await, with what their closures hold
  editingItem,  \* the editingItem state: the extraction open in the eraser, or NoItem
  selectedImageIndex, \* the selectedImageIndex state: the page imageRef shows
  scan,         \* the handleGeminiScan or handleAutoDetect invocation that is waiting,
                \* with the selectedImageIndex of its closure, or NoScan
  deleted       \* history: the ids deleteExtraction was called with

cropVars == <<pc, sourceImage, crop, options, maskUrl, pixelX, pixelY, pixelWidth,
              pixelHeight, canvas, gco, result, log, prev>>

detectVars == <<dpc, imageElement, detectOptions, grid, smearedGrid, labels,
                currentLabel, scanFrom, blob, stack, blobBounds, rects, writes>>

appVars == <<extractions, calls, editingItem, selectedImageIndex, scan, deleted>>

vars == <<cropVars, detectVars, appVars>>

(* ------------------------------ numbers -------------------------------- *)
Max(a, b) == IF a >= b THEN a ELSE b
Min(a, b) == IF a <= b THEN a ELSE b
Abs(a) == IF a < 0 THEN 0 - a ELSE a

(* ------------------------------ rasters -------------------------------- *)
Transparent == <<0, 0, 0, 0>>
Black == <<0, 0, 0, 255>>
White == <<255, 255, 255, 255>>
Red == <<255, 0, 0, 255>>

Raster(w, h, d) == [width |-> w, height |-> h, data |-> d]

\* pixel (x, y) of a raster
At(img, x, y) == img.data[y * img.width + x + 1]

NoCanvas == Raster(0, 0, <<>>)

\* document.createElement('canvas') followed by setting canvas.width and
\* canvas.height: a new bitmap, every pixel transparent black
createCanvasStale(w, h) ==
  IF canvas.width = w /\ canvas.height = h
    THEN canvas
    ELSE Raster(w, h, [i \in 1..(w * h) |-> Transparent])

createCanvas(w, h) == Raster(w, h, [i \in 1..(w * h) |-> Transparent])

\* The backing store of a canvas is premultiplied: a pixel of alpha 0 has
\* no colour, it reads back as transparent black.
Store(p) == IF p[4] = 0 THEN Transparent ELSE p

\* ctx.putImageData(imageData, 0, 0) over the whole canvas
putImageData(cv, d) == Raster(cv.width, cv.height, [i \in 1..Len(d) |-> Store(d[i])])

\* one pixel under drawImage when the composite operation is never switched
CompositeSourceOver(op, s, d) == IF s[4] = 0 THEN d ELSE s

\* One pixel of ctx.drawImage under composite operation op.  A source
\* raster is drawn over the transparent pixels of a new canvas, where a
\* source pixel of any non-zero alpha is the result; a mask may carry any
\* alpha.
\*   source-over:      the source pixel where it is opaque, else the destination
\*   destination-out:  the destination, its alpha scaled by 1 - source alpha
Composite(op, s, d) ==
  IF op = "source-over"
    THEN IF s[4] = 0 THEN d ELSE s
    ELSE Store(<<d[1], d[2], d[3], (d[4] * (255 - s[4])) \div 255>>)

\* ctx.drawImage(img, sx, sy, sw, sh, 0, 0, sw, sh): a 1:1 copy of the source
\* rectangle; the part of the rectangle outside the image draws nothing.
drawImageCrop(cv, img, sx, sy, sw, sh, op) ==
  Raster(cv.width, cv.height,
    [i \in 1..(cv.width * cv.height) |->
      LET x == (i - 1) % cv.width
          y == (i - 1) \div cv.width
      IN IF x < sw /\ y < sh
            /\ sx + x >= 0 /\ sx + x < img.width
            /\ sy + y >= 0 /\ sy + y < img.height
           THEN Composite(op, At(img, sx + x, sy + y), cv.data[i])
           ELSE cv.data[i]])

\* ctx.drawImage(maskImg, 0, 0, dw, dh): the mask stretched over the canvas
\* (nearest source pixel), composited with operation op
drawImageScaled(cv, img, dw, dh, op) ==
  Raster(cv.width, cv.height,
    [i \in 1..(cv.width * cv.height) |->
      LET x == (i - 1) % cv.width
          y == (i - 1) \div cv.width
      IN IF x < dw /\ y < dh
           THEN Composite(op, At(img, (x * img.width) \div dw, (y * img.height) \div dh),
                          cv.data[i])
           ELSE cv.data[i]])

\* canvas.toDataURL('image/png'): a lossless encoding of the bitmap
toDataURL(cv) ==
  [mime |-> "image/png", width |-> cv.width, height |-> cv.height, data |-> cv.data]

\* the empty string returned for a degenerate rectangle
EmptyString == [mime |-> "", width |-> 0, height |-> 0, data |-> <<>>]

\* the promise has not resolved
Pending == [mime |-> "pending", width |-> 0, height |-> 0, data |-> <<>>]

(* --------------------------- luminance --------------------------------- *)
\* The luminance is computed in IEEE-754 doubles.  Values are held here in
\* units of 10^-5: ten times the exact value in units of 10^-4, plus the
\* sign of the rounding error of the double evaluation.  The error only
\* matters when the exact value is an integer, which among the pixels of
\* this model happens for black (exact) and white:
\*   0.2126*255 + 0.7152*255 + 0.0722*255 = 254.99999999999997
\*   255 - 254.99999999999997             = 2.842170943040401e-14
Unit == 100000

RoundLum(r, g, b) == IF <<r, g, b>> = <<255, 255, 255>> THEN 0 - 1 ELSE 0
RoundInv(r, g, b) == IF <<r, g, b>> = <<255, 255, 255>> THEN 1 ELSE 0

isDarkStrict(r, g, b, threshold, invert) ==
  LET lum == 10 * (2126 * r + 7152 * g + 722 * b) + RoundLum(r, g, b)
      val == IF invert
               THEN 10 * (2550000 - (2126 * r + 7152 * g + 722 * b)) + RoundInv(r, g, b)
               ELSE lum
  IN val < threshold * Unit

isDark(r, g, b, threshold, invert) ==
  LET lum == 10 * (2126 * r + 7152 * g + 722 * b) + RoundLum(r, g, b)
      val == IF invert
               THEN 10 * (2550000 - (2126 * r + 7152 * g + 722 * b)) + RoundInv(r, g, b)
               ELSE lum
  IN val <= threshold * Unit

(* ------------------------ border suppression --------------------------- *)
\* minDensity = 0.65, as the fraction MinDensityNum / MinDensityDen
MinDensityNumLow == 45

MinDensityNum == 65
MinDensityDen == 100

rowDarkCount(img, y, threshold, invert) ==
  Cardinality({x \in 0..(img.width - 1) :
     LET p == At(img, x, y) IN isDark(p[1], p[2], p[3], threshold, invert)})

colDarkCount(img, x, threshold, invert) ==
  Cardinality({y \in 0..(img.height - 1) :
     LET p == At(img, x, y) IN isDark(p[1], p[2], p[3], threshold, invert)})

\* the marks when the column scan counts on the raster the row scan has
\* already cleared
pixelsToRemoveSequential(img, threshold, invert) ==
  LET rows == {y \in 0..(img.height - 1) :
                 rowDarkCount(img, y, threshold, invert) * MinDensityDen
                   > MinDensityNum * img.width}
      cleared == Raster(img.width, img.height,
                   [i \in 1..(img.width * img.height) |->
                      IF ((i - 1) \div img.width) \in rows
                        THEN <<255, 255, 255, 0>> ELSE img.data[i]])
  IN {i \in 1..(img.width * img.height) :
        \/ ((i - 1) \div img.width) \in rows
        \/ colDarkCount(cleared, (i - 1) % img.width, threshold, invert) * MinDensityDen
             > MinDensityNum * img.height}

\* pixelsToRemove[y * width + x] = 1
pixelsToRemove(img, threshold, invert) ==
  {i \in 1..(img.width * img.height) :
     LET x == (i - 1) % img.width
         y == (i - 1) \div img.width
     IN \/ rowDarkCount(img, y, threshold, invert) * MinDensityDen
             > MinDensityNum * img.width
        \/ colDarkCount(img, x, threshold, invert) * MinDensityDen
             > MinDensityNum * img.height}

removeLinearStructures(cv, threshold, invert) ==
  LET marks == pixelsToRemove(cv, threshold, invert)
      data == [i \in 1..Len(cv.data) |->
                 IF i \in marks THEN <<255, 255, 255, 0>> ELSE cv.data[i]]
  IN putImageData(cv, data)

(* --------------------------- binarization ------------------------------ *)
\* the loop body without the skip of transparent pixels
binarizePixelNoSkip(p, threshold, invert) ==
  LET lum == 10 * (2126 * p[1] + 7152 * p[2] + 722 * p[3]) + RoundLum(p[1], p[2], p[3])
      val == IF invert
               THEN 10 * (2550000 - (2126 * p[1] + 7152 * p[2] + 722 * p[3]))
                      + RoundInv(p[1], p[2], p[3])
               ELSE lum
  IN IF val > threshold * Unit THEN <<255, 255, 255, 0>> ELSE <<0, 0, 0, 255>>

\* the loop body painting ink white
binarizePixelWhiteInk(p, threshold, invert) ==
  IF p[4] = 0 THEN p
  ELSE LET lum == 10 * (2126 * p[1] + 7152 * p[2] + 722 * p[3]) + RoundLum(p[1], p[2], p[3])
           val == IF invert
                    THEN 10 * (2550000 - (2126 * p[1] + 7152 * p[2] + 722 * p[3]))
                           + RoundInv(p[1], p[2], p[3])
                    ELSE lum
       IN IF val > threshold * Unit THEN <<0, 0, 0, 0>> ELSE <<255, 255, 255, 255>>

\* the loop body leaving the alpha of an ink pixel as it was
binarizePixelKeepAlpha(p, threshold, invert) ==
  IF p[4] = 0 THEN p
  ELSE LET lum == 10 * (2126 * p[1] + 7152 * p[2] + 722 * p[3]) + RoundLum(p[1], p[2], p[3])
           val == IF invert
                    THEN 10 * (2550000 - (2126 * p[1] + 7152 * p[2] + 722 * p[3]))
                           + RoundInv(p[1], p[2], p[3])
                    ELSE lum
       IN IF val > threshold * Unit THEN <<255, 255, 255, 0>> ELSE <<0, 0, 0, p[4]>>

\* lines 163-190: the body of the loop, for one pixel
binarizePixel(p, threshold, invert) ==
  IF p[4] = 0 THEN p
  ELSE LET lum == 10 * (2126 * p[1] + 7152 * p[2] + 722 * p[3]) + RoundLum(p[1], p[2], p[3])
           val == IF invert
                    THEN 10 * (2550000 - (2126 * p[1] + 7152 * p[2] + 722 * p[3]))
                           + RoundInv(p[1], p[2], p[3])
                    ELSE lum
       IN IF val > threshold * Unit THEN <<255, 255, 255, 0>> ELSE <<0, 0, 0, 255>>

applyBinarization(cv, threshold, invert) ==
  putImageData(cv, [i \in 1..Len(cv.data) |-> binarizePixel(cv.data[i], threshold, invert)])

(* ------------------------------ inputs --------------------------------- *)
Rect(x, y, w, h) == [x |-> x, y |-> y, width |-> w, height |-> h]

Settings(e, t, i, rb) == [enhance |-> e, threshold |-> t, invert |-> i, removeBorders |-> rb]

\* maskUrl: absent, a data URL that does not decode, or a mask image
NoMask == [kind |-> "none", img |-> NoCanvas]
BadMask == [kind |-> "bad", img |-> NoCanvas]
Mask(img) == [kind |-> "image", img |-> img]

\* a 1x1 mask, opaque: erases everything
OpaqueMask == Mask(Raster(1, 1, <<Black>>))
\* a 2x1 mask: the left half opaque, the right half clear
LeftMask == Mask(Raster(2, 1, <<Black, Transparent>>))

Input(src, rect, opts, mask) == [src |-> src, crop |-> rect, options |-> opts, mask |-> mask]

\* the raster whose pixel (x, y) is <<x, y, 0, 255>>: every pixel tells its origin
Tagged(w, h) ==
  Raster(w, h, [i \in 1..(w * h) |-> <<(i - 1) % w, (i - 1) \div w, 0, 255>>])

\* the sizes of the rasters of at most n pixels
Sizes(n) == {d \in (1..n) \X (1..n) : d[1] * d[2] <= n}

Thresholds == {0, 128, 255}

AllSettings ==
  {Settings(e, t, i, rb) : e \in BOOLEAN, t \in Thresholds, i \in BOOLEAN, rb \in BOOLEAN}

AllOff == Settings(FALSE, 128, FALSE, FALSE)
AllOn == Settings(TRUE, 128, FALSE, TRUE)

(* ------------------------------ cropImage ------------------------------ *)
(* ----------------------- detectSignatures: data ------------------------ *)
\* lines 19, 41, 46, 72-73, 164
processWidth == 800
cellSize == 10
detectThreshold == 180
dilateXWide == 3
dilateX == 2
dilateY == 1
padding == 1

\* The page, described by what line 33 draws of it: drawn maps the pixels of
\* the processWidth x processHeight analysis raster that are not white
\* to their colour, as getImageData reads them at line 36.
Page(w, h, drawn) == [naturalWidth |-> w, naturalHeight |-> h, drawn |-> drawn]
NoPage == Page(0, 0, <<>>)

\* options: the fractions, in percent; 0 stands for an option that is falsy
\* (left out, undefined or 0)
DetectOptions(minW, maxW, minH) == [minWidth |-> minW, maxWidth |-> maxW, minHeight |-> minH]
NoOptions == DetectOptions(0, 0, 0)

NoBlob == [label |-> 0, minX |-> 0, maxX |-> 0, minY |-> 0, maxY |-> 0, count |-> 0]

DetectIdle ==
  /\ dpc = "idle"
  /\ imageElement = NoPage
  /\ detectOptions = NoOptions
  /\ grid = {}
  /\ smearedGrid = {}
  /\ labels = <<>>
  /\ currentLabel = 1
  /\ scanFrom = 0
  /\ blob = NoBlob
  /\ stack = <<>>
  /\ blobBounds = <<>>
  /\ rects = <<>>
  /\ writes = <<>>

(* ------------------------------- App: data ----------------------------- *)
\* part_001: Extraction.  The name and the timestamp play no part.
Extraction(id, rect, url, mask, settings) ==
  [id |-> id, sourceImageIndex |-> 0, naturalCrop |-> rect, imageUrl |-> url,
   editMaskUrl |-> mask, settings |-> settings]

\* editingItem is null
NoItem == Extraction("", Rect(0, 0, 0, 0), EmptyString, NoMask, Settings(FALSE, 0, FALSE, FALSE))

\* no scan is in progress (isGeminiScanning and isDetecting are false)
NoScan == [kind |-> "none", index |-> 0]

\* part_000 lines 269-284: no extraction, nothing in progress, the eraser
\* closed, the first page selected
AppIdle ==
  /\ extractions = <<>>
  /\ calls = {}
  /\ editingItem = NoItem
  /\ selectedImageIndex = 0
  /\ scan = NoScan
  /\ deleted = {}

NoCall == [src |-> NoCanvas, crop |-> Rect(0, 0, 0, 0),
           options |-> Settings(FALSE, 0, FALSE, FALSE), mask |-> NoMask]

NoPrev == [input |-> NoCall, result |-> Pending]

Init ==
  /\ pc = "idle"
  /\ sourceImage = NoCanvas
  /\ crop = Rect(0, 0, 0, 0)
  /\ options = Settings(FALSE, 0, FALSE, FALSE)
  /\ maskUrl = NoMask
  /\ pixelX = 0 /\ pixelY = 0 /\ pixelWidth = 0 /\ pixelHeight = 0
  /\ canvas = NoCanvas
  /\ gco = "source-over"
  /\ result = Pending
  /\ log = <<>>
  /\ prev = NoPrev
  /\ DetectIdle
  /\ AppIdle

\* lines 17-20: the clamped rectangle
PixelX(c) == Max(0, c.x)
PixelY(c) == Max(0, c.y)

PixelWidthUnclamped(img, c) == Abs(c.width)

PixelWidthSigned(img, c) == Min(img.width - PixelX(c), c.width)

PixelWidth(img, c) == Min(img.width - PixelX(c), Abs(c.width))

PixelHeight(img, c) == Min(img.height - PixelY(c), Abs(c.height))

\* line 22: nothing to crop
degenerateStrict(w, h) == w < 0 \/ h < 0

degenerate(w, h) == w <= 0 \/ h <= 0

\* lines 14-41: the clamp, the early return, the canvas and the copy.
\* getContext('2d') of a canvas that has no context yet is never null.
Call(in) ==
  /\ pc = "idle"
  /\ sourceImage' = in.src
  /\ crop' = in.crop
  /\ options' = in.options
  /\ maskUrl' = in.mask
  /\ pixelX' = PixelX(in.crop)
  /\ pixelY' = PixelY(in.crop)
  /\ pixelWidth' = PixelWidth(in.src, in.crop)
  /\ pixelHeight' = PixelHeight(in.src, in.crop)
  /\ gco' = "source-over"
  /\ IF degenerate(pixelWidth', pixelHeight')
       THEN /\ result' = EmptyString
            /\ pc' = "done"
            /\ canvas' = NoCanvas
            /\ log' = <<>>
       ELSE /\ result' = Pending
            /\ pc' = "borders"
            /\ canvas' = drawImageCrop(createCanvas(pixelWidth', pixelHeight'), in.src,
                                       pixelX', pixelY', pixelWidth', pixelHeight', gco')
            /\ log' = <<<<"copy", canvas'>>>>
  /\ UNCHANGED prev
  /\ UNCHANGED <<detectVars, appVars>>

\* the border stage, were it run on the source raster itself
BorderStageInPlace ==
  /\ pc = "borders"
  /\ pc' = "binarize"
  /\ IF options.removeBorders
       THEN /\ canvas' = removeLinearStructures(canvas, options.threshold, options.invert)
            /\ sourceImage' = canvas'
            /\ log' = Append(log, <<"border", canvas'>>)
       ELSE UNCHANGED <<canvas, log, sourceImage>>
  /\ UNCHANGED <<crop, options, maskUrl, pixelX, pixelY, pixelWidth,
                 pixelHeight, gco, result, prev>>
  /\ UNCHANGED <<detectVars, appVars>>

\* lines 43-46
BorderStage ==
  /\ pc = "borders"
  /\ pc' = "binarize"
  /\ IF options.removeBorders
       THEN /\ canvas' = removeLinearStructures(canvas, options.threshold, options.invert)
            /\ log' = Append(log, <<"border", canvas'>>)
       ELSE UNCHANGED <<canvas, log>>
  /\ UNCHANGED <<sourceImage, crop, options, maskUrl, pixelX, pixelY, pixelWidth,
                 pixelHeight, gco, result, prev>>
  /\ UNCHANGED <<detectVars, appVars>>

\* lines 48-51
BinarizeStageWrongFlag ==
  /\ pc = "binarize"
  /\ pc' = "mask"
  /\ IF options.removeBorders
       THEN /\ canvas' = applyBinarization(canvas, options.threshold, options.invert)
            /\ log' = Append(log, <<"binarize", canvas'>>)
       ELSE UNCHANGED <<canvas, log>>
  /\ UNCHANGED <<sourceImage, crop, options, maskUrl, pixelX, pixelY, pixelWidth,
                 pixelHeight, gco, result, prev>>
  /\ UNCHANGED <<detectVars, appVars>>

BinarizeStage ==
  /\ pc = "binarize"
  /\ pc' = "mask"
  /\ IF options.enhance
       THEN /\ canvas' = applyBinarization(canvas, options.threshold, options.invert)
            /\ log' = Append(log, <<"binarize", canvas'>>)
       ELSE UNCHANGED <<canvas, log>>
  /\ UNCHANGED <<sourceImage, crop, options, maskUrl, pixelX, pixelY, pixelWidth,
                 pixelHeight, gco, result, prev>>
  /\ UNCHANGED <<detectVars, appVars>>

\* lines 53-56, 64: with a mask, start loading it and wait
MaskStage ==
  /\ pc = "mask"
  /\ IF maskUrl.kind # "none"
       THEN /\ pc' = "loading"
            /\ log' = Append(log, <<"mask", canvas>>)
       ELSE /\ pc' = "encode"
            /\ UNCHANGED log
  /\ UNCHANGED <<sourceImage, crop, options, maskUrl, pixelX, pixelY, pixelWidth,
                 pixelHeight, canvas, gco, result, prev>>
  /\ UNCHANGED <<detectVars, appVars>>

\* lines 57-62: maskImg.onload
MaskLoad ==
  /\ pc = "loading"
  /\ maskUrl.kind = "image"
  /\ canvas' = drawImageScaled(canvas, maskUrl.img, pixelWidth, pixelHeight, "destination-out")
  /\ gco' = "source-over"
  /\ log' = Append(log, <<"composite", canvas'>>)
  /\ pc' = "encode"
  /\ UNCHANGED <<sourceImage, crop, options, maskUrl, pixelX, pixelY, pixelWidth,
                 pixelHeight, result, prev>>
  /\ UNCHANGED <<detectVars, appVars>>

\* maskImg.onerror rejecting the promise: the invocation ends without an image
MaskErrorRejects ==
  /\ pc = "loading"
  /\ maskUrl.kind = "bad"
  /\ pc' = "done"
  /\ result' = EmptyString
  /\ UNCHANGED <<sourceImage, crop, options, maskUrl, pixelX, pixelY, pixelWidth,
                 pixelHeight, canvas, gco, log, prev>>
  /\ UNCHANGED <<detectVars, appVars>>

\* line 63: maskImg.onerror
MaskError ==
  /\ pc = "loading"
  /\ maskUrl.kind = "bad"
  /\ pc' = "encode"
  /\ UNCHANGED <<sourceImage, crop, options, maskUrl, pixelX, pixelY, pixelWidth,
                 pixelHeight, canvas, gco, result, log, prev>>
  /\ UNCHANGED <<detectVars, appVars>>

\* line 68
Return ==
  /\ pc = "encode"
  /\ result' = toDataURL(canvas)
  /\ pc' = "done"
  /\ UNCHANGED <<sourceImage, crop, options, maskUrl, pixelX, pixelY, pixelWidth,
                 pixelHeight, canvas, gco, log, prev>>
  /\ UNCHANGED <<detectVars, appVars>>

\* the arguments of the invocation in progress
CurrentInput == Input(sourceImage, crop, options, maskUrl)

\* The caller is free to call again; the finished invocation may be kept
\* for comparison.  The canvas of the finished invocation is garbage.
Again ==
  /\ pc = "done"
  /\ pc' = "idle"
  /\ prev' \in {prev, [input |-> CurrentInput, result |-> result]}
  /\ sourceImage' = NoCanvas
  /\ crop' = Rect(0, 0, 0, 0)
  /\ options' = Settings(FALSE, 0, FALSE, FALSE)
  /\ maskUrl' = NoMask
  /\ pixelX' = 0 /\ pixelY' = 0 /\ pixelWidth' = 0 /\ pixelHeight' = 0
  /\ result' = Pending
  /\ log' = <<>>
  /\ UNCHANGED <<canvas, gco>>
  /\ UNCHANGED <<detectVars, appVars>>

Stages == BorderStage \/ BinarizeStage \/ MaskStage \/ MaskLoad \/ MaskError \/ Return

\* geometry: every rectangle around and across a tagged source
InvokeGeom ==
  \E w \in 1..MaxW, h \in 1..MaxH,
     x \in (0 - 1)..MaxW, y \in (0 - 1)..MaxH,
     cw \in (0 - 1)..(MaxW + 1), ch \in (0 - 1)..(MaxH + 1),
     opts \in {AllOff, AllOn}, mask \in {NoMask, OpaqueMask} :
    Call(Input(Tagged(w, h), Rect(x, y, cw, ch), opts, mask))

\* pixels: every small raster over the palette, cropped whole, every setting
InvokePalette ==
  \E wh \in Sizes(PaletteCells) :
    \E d \in [1..(wh[1] * wh[2]) -> {Black, White, Red, Transparent}] :
      \E opts \in AllSettings, mask \in {NoMask, BadMask, LeftMask} :
        Call(Input(Raster(wh[1], wh[2], d), Rect(0, 0, wh[1], wh[2]), opts, mask))

\* lines: every black-and-white raster, cropped whole
InvokeInk ==
  \E wh \in Sizes(InkCells) :
    \E d \in [1..(wh[1] * wh[2]) -> {Black, White}] :
      \E e \in BOOLEAN, i \in BOOLEAN, rb \in BOOLEAN, mask \in {NoMask, LeftMask} :
        Call(Input(Raster(wh[1], wh[2], d), Rect(0, 0, wh[1], wh[2]),
                   Settings(e, 128, i, rb), mask))

\* cropImage is called with any of the inputs
Invoke == pc = "idle" /\ (InvokeGeom \/ InvokePalette \/ InvokeInk)

Next == Invoke \/ Stages

Spec == Init /\ [][Next]_vars

\* the inputs of the repeated calls
InvokeRepeat ==
  /\ pc = "idle"
  /\ \E wh \in Sizes(RepeatCells) :
       \E d \in [1..(wh[1] * wh[2]) -> {Black, Transparent}] :
         \E opts \in {AllOff, AllOn}, mask \in {NoMask, BadMask, OpaqueMask} :
           Call(Input(Raster(wh[1], wh[2], d), Rect(0, 0, wh[1], wh[2]), opts, mask))

NextRepeat == InvokeRepeat \/ Stages \/ Again

SpecRepeat == Init /\ [][NextRepeat]_vars

\* lines 3-69 as one function: what the promise of cropImage resolves to
cropImage(src, c, opts, mask) ==
  LET px == PixelX(c)
      py == PixelY(c)
      pw == PixelWidth(src, c)
      ph == PixelHeight(src, c)
  IN IF degenerate(pw, ph)
       THEN EmptyString
       ELSE LET copied == drawImageCrop(createCanvas(pw, ph), src, px, py, pw, ph,
                                        "source-over")
                cleaned == IF opts.removeBorders
                             THEN removeLinearStructures(copied, opts.threshold, opts.invert)
                             ELSE copied
                enhanced == IF opts.enhance
                              THEN applyBinarization(cleaned, opts.threshold, opts.invert)
                              ELSE cleaned
                erased == IF mask.kind = "image"
                            THEN drawImageScaled(enhanced, mask.img, pw, ph,
                                                 "destination-out")
                            ELSE enhanced
            IN toDataURL(erased)

\* the marks of the eraser: clear, the antialiased rim of a stroke, a stroke
MaskPalette == {Transparent, <<0, 0, 0, 128>>, Black}

\* erasing: every black-and-white raster, cropped whole, with every mask of
\* its own dimensions, with no mask and with a mask that does not decode
InvokeMasked ==
  /\ pc = "idle"
  /\ \E wh \in Sizes(MaskCells) :
       \E d \in [1..(wh[1] * wh[2]) -> {Black, White}] :
         \E e \in BOOLEAN, i \in BOOLEAN, rb \in BOOLEAN :
           \E mask \in {NoMask, BadMask}
                         \cup {Mask(Raster(wh[1], wh[2], m)) :
                                 m \in [1..(wh[1] * wh[2]) -> MaskPalette]} :
             Call(Input(Raster(wh[1], wh[2], d), Rect(0, 0, wh[1], wh[2]),
                        Settings(e, 128, i, rb), mask))

NextMasked == InvokeMasked \/ Stages

\* the handlers of a pending image load are run by the event loop
SpecMasked == Init /\ [][NextMasked]_vars /\ WF_vars(Stages)

\* a pixel of partial alpha: ink seen through half-transparent paper
Faint == <<0, 0, 0, 128>>

\* translucent sources: every small raster over black, white, transparent
\* and half-transparent black, cropped whole.  A source pixel of partial
\* alpha drawn on the new, transparent canvas is read back as it is.
InvokeAlpha ==
  /\ pc = "idle"
  /\ \E wh \in Sizes(AlphaCells) :
       \E d \in [1..(wh[1] * wh[2]) -> {Black, White, Transparent, Faint}] :
         \E e \in BOOLEAN, t \in Thresholds, i \in BOOLEAN,
            mask \in {NoMask, BadMask, OpaqueMask} :
           Call(Input(Raster(wh[1], wh[2], d), Rect(0, 0, wh[1], wh[2]),
                      Settings(e, t, i, FALSE), mask))

NextAlpha == InvokeAlpha \/ Stages

SpecAlpha == Init /\ [][NextAlpha]_vars

(* --------------------------- detectSignatures -------------------------- *)
\* Math.ceil(a / b) and Math.round(a / b) of positive integers
CeilDiv(a, b) == (a + b - 1) \div b
RoundDiv(a, b) == (2 * a + b) \div (2 * b)

\* lines 20-21: scale = naturalWidth / processWidth,
\* processHeight = Math.round(naturalHeight / scale)
processHeight(img) == RoundDiv(img.naturalHeight * processWidth, img.naturalWidth)

\* lines 42-43
gridW == CeilDiv(processWidth, cellSize)
gridH(img) == CeilDiv(processHeight(img), cellSize)

\* line 56, in thousandths
detectVal(p) == 299 * p[1] + 587 * p[2] + 114 * p[3]

\* line 58 with <= for <
isInkPixelInclusive(p) == detectVal(p) <= detectThreshold * 1000

\* line 58
isInkPixel(p) == detectVal(p) < detectThreshold * 1000

\* lines 44-65: the cells that hold an ink pixel.  A pixel the page does not
\* mention is white, which is not ink.
densityGrid(img) ==
  {(q[2] \div cellSize) * gridW + (q[1] \div cellSize) :
     q \in {r \in DOMAIN img.drawn : isInkPixel(img.drawn[r])}}

\* the dilation, were the cells marked by the pass to spread once more
dilateCompounding(g, gh) ==
  UNION {LET x == idx % gridW
             y == idx \div gridW
         IN {ny * gridW + nx :
               nx \in Max(0, x - 2 * dilateX)..Min(gridW - 1, x + 2 * dilateX),
               ny \in Max(0, y - 2 * dilateY)..Min(gh - 1, y + 2 * dilateY)} : idx \in g}

\* lines 71-90: a new grid; every active cell of g marks its neighbourhood
dilate(g, gh) ==
  UNION {LET x == idx % gridW
             y == idx \div gridW
         IN {ny * gridW + nx :
               nx \in Max(0, x - dilateX)..Min(gridW - 1, x + dilateX),
               ny \in Max(0, y - dilateY)..Min(gh - 1, y + dilateY)} : idx \in g}

\* labels[idx], writes[idx]
Label(idx) == IF idx \in DOMAIN labels THEN labels[idx] ELSE 0
Written(idx) == IF idx \in DOMAIN writes THEN writes[idx] ELSE 0

\* lines 16-65: the call, the analysis raster and the density grid
DetectCall(img, opts) ==
  /\ dpc = "idle"
  /\ dpc' = "dilate"
  /\ imageElement' = img
  /\ detectOptions' = opts
  /\ grid' = densityGrid(img)
  /\ smearedGrid' = {}
  /\ labels' = <<>>
  /\ currentLabel' = 1
  /\ scanFrom' = 0
  /\ blob' = NoBlob
  /\ stack' = <<>>
  /\ blobBounds' = <<>>
  /\ rects' = <<>>
  /\ writes' = <<>>
  /\ UNCHANGED <<cropVars, appVars>>

\* lines 67-90
Dilate ==
  /\ dpc = "dilate"
  /\ dpc' = "scan"
  /\ smearedGrid' = dilate(grid, gridH(imageElement))
  /\ UNCHANGED <<imageElement, detectOptions, grid, labels, currentLabel, scanFrom,
                 blob, stack, blobBounds, rects, writes>>
  /\ UNCHANGED <<cropVars, appVars>>

\* the cells the outer loops (lines 100-101) have still to visit that start a blob
Seeds == {i \in smearedGrid : i >= scanFrom /\ Label(i) = 0}

\* the start of a blob, were its first cell left out of the count
SeedUncounted ==
  /\ dpc = "scan"
  /\ Seeds # {}
  /\ LET idx == CHOOSE i \in Seeds : \A j \in Seeds : i <= j
         x == idx % gridW
         y == idx \div gridW
     IN /\ currentLabel' = currentLabel + 1
        /\ labels' = [i \in DOMAIN labels \cup {idx} |->
                        IF i = idx THEN currentLabel ELSE labels[i]]
        /\ writes' = [i \in DOMAIN writes \cup {idx} |->
                        IF i = idx THEN Written(i) + 1 ELSE writes[i]]
        /\ blob' = [label |-> currentLabel, minX |-> x, maxX |-> x,
                    minY |-> y, maxY |-> y, count |-> 0]
        /\ stack' = <<<<x, y>>>>
        /\ scanFrom' = idx
  /\ dpc' = "fill"
  /\ UNCHANGED <<imageElement, detectOptions, grid, smearedGrid, blobBounds, rects>>
  /\ UNCHANGED <<cropVars, appVars>>

\* lines 100-109: the outer loops run on to the next active cell without a
\* label, which starts a blob
Seed ==
  /\ dpc = "scan"
  /\ Seeds # {}
  /\ LET idx == CHOOSE i \in Seeds : \A j \in Seeds : i <= j
         x == idx % gridW
         y == idx \div gridW
     IN /\ currentLabel' = currentLabel + 1
        /\ labels' = [i \in DOMAIN labels \cup {idx} |->
                        IF i = idx THEN currentLabel ELSE labels[i]]
        /\ writes' = [i \in DOMAIN writes \cup {idx} |->
                        IF i = idx THEN Written(i) + 1 ELSE writes[i]]
        /\ blob' = [label |-> currentLabel, minX |-> x, maxX |-> x,
                    minY |-> y, maxY |-> y, count |-> 1]
        /\ stack' = <<<<x, y>>>>
        /\ scanFrom' = idx
  /\ dpc' = "fill"
  /\ UNCHANGED <<imageElement, detectOptions, grid, smearedGrid, blobBounds, rects>>
  /\ UNCHANGED <<cropVars, appVars>>

\* the neighbours of a cell, were the corners counted
neighborsDiagonal(cx, cy) ==
  <<<<cx + 1, cy>>, <<cx - 1, cy>>, <<cx, cy + 1>>, <<cx, cy - 1>>,
    <<cx + 1, cy + 1>>, <<cx - 1, cy - 1>>, <<cx + 1, cy - 1>>, <<cx - 1, cy + 1>>>>

\* lines 121-123
neighbors(cx, cy) == <<<<cx + 1, cy>>, <<cx - 1, cy>>, <<cx, cy + 1>>, <<cx, cy - 1>>>>

\* one turn of the while loop, were a cell labelled when it is popped and
\* not before it is pushed
PopLabelsLate ==
  /\ dpc = "fill"
  /\ stack # <<>>
  /\ LET c == stack[Len(stack)]
         cx == c[1]
         cy == c[2]
         Open(n) == /\ n[1] >= 0 /\ n[1] < gridW
                    /\ n[2] >= 0 /\ n[2] < gridH(imageElement)
                    /\ (n[2] * gridW + n[1]) \in smearedGrid
                    /\ Label(n[2] * gridW + n[1]) = 0
         found == SelectSeq(neighbors(cx, cy), Open)
         nIdx == {found[k][2] * gridW + found[k][1] : k \in 1..Len(found)}
     IN /\ blob' = [blob EXCEPT !.minX = Min(blob.minX, cx), !.maxX = Max(blob.maxX, cx),
                                !.minY = Min(blob.minY, cy), !.maxY = Max(blob.maxY, cy),
                                !.count = blob.count + Len(found)]
        /\ labels' = [i \in DOMAIN labels \cup {cy * gridW + cx} |->
                        IF i = cy * gridW + cx THEN blob.label ELSE labels[i]]
        /\ writes' = [i \in DOMAIN writes \cup nIdx |->
                        IF i \in nIdx THEN Written(i) + 1 ELSE writes[i]]
        /\ stack' = SubSeq(stack, 1, Len(stack) - 1) \o found
  /\ UNCHANGED <<dpc, imageElement, detectOptions, grid, smearedGrid, currentLabel,
                 scanFrom, blobBounds, rects>>
  /\ UNCHANGED <<cropVars, appVars>>

\* lines 111-135: one turn of the while loop
Pop ==
  /\ dpc = "fill"
  /\ stack # <<>>
  /\ LET c == stack[Len(stack)]
         cx == c[1]
         cy == c[2]
         Open(n) == /\ n[1] >= 0 /\ n[1] < gridW
                    /\ n[2] >= 0 /\ n[2] < gridH(imageElement)
                    /\ (n[2] * gridW + n[1]) \in smearedGrid
                    /\ Label(n[2] * gridW + n[1]) = 0
         found == SelectSeq(neighbors(cx, cy), Open)
         nIdx == {found[k][2] * gridW + found[k][1] : k \in 1..Len(found)}
     IN /\ blob' = [blob EXCEPT !.minX = Min(blob.minX, cx), !.maxX = Max(blob.maxX, cx),
                                !.minY = Min(blob.minY, cy), !.maxY = Max(blob.maxY, cy),
                                !.count = blob.count + Len(found)]
        /\ labels' = [i \in DOMAIN labels \cup nIdx |->
                        IF i \in nIdx THEN blob.label ELSE labels[i]]
        /\ writes' = [i \in DOMAIN writes \cup nIdx |->
                        IF i \in nIdx THEN Written(i) + 1 ELSE writes[i]]
        /\ stack' = SubSeq(stack, 1, Len(stack) - 1) \o found
  /\ UNCHANGED <<dpc, imageElement, detectOptions, grid, smearedGrid, currentLabel,
                 scanFrom, blobBounds, rects>>
  /\ UNCHANGED <<cropVars, appVars>>

\* line 137: the work list is empty, the blob is recorded
CloseBlob ==
  /\ dpc = "fill"
  /\ stack = <<>>
  /\ blobBounds' = [l \in DOMAIN blobBounds \cup {blob.label} |->
                      IF l = blob.label
                        THEN [minX |-> blob.minX, maxX |-> blob.maxX, minY |-> blob.minY,
                              maxY |-> blob.maxY, count |-> blob.count]
                        ELSE blobBounds[l]]
  /\ scanFrom' = scanFrom + 1
  /\ dpc' = "scan"
  /\ UNCHANGED <<imageElement, detectOptions, grid, smearedGrid, labels, currentLabel,
                 blob, stack, rects, writes>>
  /\ UNCHANGED <<cropVars, appVars>>

\* lines 100-140: the outer loops find no further blob
ScanEnd ==
  /\ dpc = "scan"
  /\ Seeds = {}
  /\ dpc' = "filter"
  /\ scanFrom' = gridW * gridH(imageElement)
  /\ UNCHANGED <<imageElement, detectOptions, grid, smearedGrid, labels, currentLabel,
                 blob, stack, blobBounds, rects, writes>>
  /\ UNCHANGED <<cropVars, appVars>>

\* v || d, for a fraction in percent
OrDefault(v, d) == IF v = 0 THEN d ELSE v

\* lines 144-146, in hundredths of a cell
minW(opts) == OrDefault(opts.minWidth, 5) * gridW
maxW(opts) == OrDefault(opts.maxWidth, 90) * gridW
minH(img, opts) == OrDefault(opts.minHeight, 2) * gridH(img)

\* lines 149-150
blobWidth(b) == b.maxX - b.minX + 1
blobHeight(b) == b.maxY - b.minY + 1

\* lines 157-159
isNoise(img, opts, b) ==
  blobWidth(b) * 100 < minW(opts) \/ blobHeight(b) * 100 < minH(img, opts)

isWholePageEither(img, opts, b) ==
  blobWidth(b) * 100 > maxW(opts) \/ blobHeight(b) * 10 > gridH(img) * 9

isWholePage(img, opts, b) ==
  blobWidth(b) * 100 > maxW(opts) /\ blobHeight(b) * 10 > gridH(img) * 9

isVerticalLine(b) == blobHeight(b) > blobWidth(b) * 4

\* line 161
emitted(img, opts, b) ==
  ~isNoise(img, opts, b) /\ ~isWholePage(img, opts, b) /\ ~isVerticalLine(b)

\* lines 165-174 without the padding
rectOfUnpadded(img, b) ==
  LET nw == img.naturalWidth * processWidth
      nh == img.naturalHeight * processWidth
      x == Max(0, b.minX * cellSize * img.naturalWidth)
      y == Max(0, b.minY * cellSize * img.naturalWidth)
      w == Min(nw, blobWidth(b) * cellSize * img.naturalWidth)
      h == Min(nh, blobHeight(b) * cellSize * img.naturalWidth)
  IN [x |-> x, y |-> y,
      width |-> IF x + w > nw THEN nw - x ELSE w,
      height |-> IF y + h > nh THEN nh - y ELSE h]

\* lines 165-170 without lines 173-174
rectOfUnclamped(img, b) ==
  [x |-> Max(0, (b.minX - padding) * cellSize * img.naturalWidth),
   y |-> Max(0, (b.minY - padding) * cellSize * img.naturalWidth),
   width |-> Min(img.naturalWidth * processWidth,
                 (blobWidth(b) + padding * 2) * cellSize * img.naturalWidth),
   height |-> Min(img.naturalHeight * processWidth,
                  (blobHeight(b) + padding * 2) * cellSize * img.naturalWidth)]

\* lines 164-174: the rectangle of a blob in natural pixels.  The fields are
\* held multiplied by processWidth, which makes them integers: scale is
\* naturalWidth / processWidth.
rectOf(img, b) ==
  LET nw == img.naturalWidth * processWidth
      nh == img.naturalHeight * processWidth
      x == Max(0, (b.minX - padding) * cellSize * img.naturalWidth)
      y == Max(0, (b.minY - padding) * cellSize * img.naturalWidth)
      w == Min(nw, (blobWidth(b) + padding * 2) * cellSize * img.naturalWidth)
      h == Min(nh, (blobHeight(b) + padding * 2) * cellSize * img.naturalWidth)
  IN [x |-> x, y |-> y,
      width |-> IF x + w > nw THEN nw - x ELSE w,
      height |-> IF y + h > nh THEN nh - y ELSE h]

\* lines 142-180: Object.values(blobBounds) visits the labels in ascending order
Filter ==
  /\ dpc = "filter"
  /\ dpc' = "done"
  /\ LET Keep(b) == emitted(imageElement, detectOptions, b)
         kept == SelectSeq(blobBounds, Keep)
     IN rects' = [k \in 1..Len(kept) |-> rectOf(imageElement, kept[k])]
  /\ UNCHANGED <<imageElement, detectOptions, grid, smearedGrid, labels, currentLabel,
                 scanFrom, blob, stack, blobBounds, writes>>
  /\ UNCHANGED <<cropVars, appVars>>

Detection == Dilate \/ Seed \/ Pop \/ CloseBlob \/ ScanEnd \/ Filter

\* the page whose ink is one black pixel, the last one, in each of the cells
Marks(cells) ==
  [q \in {<<cellSize * c[1] + cellSize - 1, cellSize * c[2] + cellSize - 1>> : c \in cells}
     |-> Black]

\* the cells of the first WindowW columns of a grid of WindowH rows
Window == (0..(WindowW - 1)) \X (0..(WindowH - 1))

\* small grids: a page of WindowH rows of cells, blank or with ink in one or
\* two cells of the window
InvokeGrid ==
  /\ dpc = "idle"
  /\ \E cells \in {{}} \cup {{a, b} : a \in Window, b \in Window} :
       DetectCall(Page(processWidth, cellSize * WindowH, Marks(cells)), NoOptions)

NextGrid == InvokeGrid \/ Detection

SpecGrid == Init /\ [][NextGrid]_vars

\* colours on both sides of the cutoff: greys just below and on it, red
\* (76.245), yellow (225.93), black, and a pixel the page leaves transparent,
\* which getImageData reads as (0, 0, 0, 0).  For each of them the double
\* evaluation of line 56 is on the same side of 180 as the exact value.
Shades ==
  {Black, <<179, 179, 179, 255>>, <<180, 180, 180, 255>>, Red, <<255, 255, 0, 255>>,
   Transparent}

\* <<natural width, natural height, pixels of the analysis raster>>: a strip
\* of 800 x 35, whose grid of 4 rows ends in a row of 5 pixel rows, with
\* pixels in the corners of cells and of the raster; a page of 333 x 500,
\* analysed at 800 x 1201, whose last row of cells holds one pixel row
Spots ==
  {<<800, 35, {<<0, 0>>, <<9, 9>>, <<10, 9>>, <<795, 30>>, <<799, 34>>}>>,
   <<333, 500, {<<0, 0>>, <<400, 1199>>, <<799, 1200>>}>>}

\* shaded pages: at most two pixels of a page, in any of the shades
InvokeShades ==
  /\ dpc = "idle"
  /\ \E page \in Spots :
       \E a \in page[3], b \in page[3] :
         \E drawn \in [{a, b} -> Shades] :
           DetectCall(Page(page[1], page[2], drawn), NoOptions)

NextDensity == InvokeShades \/ Detection

SpecDensity == Init /\ [][NextDensity]_vars

\* detectSignatures runs from its call to resolve without yielding: a call
\* that has begun takes its next step
SpecGridFair == Init /\ [][NextGrid]_vars /\ WF_vars(Detection)

\* line 180: the promise has resolved; the caller is free to call again
DetectAgain ==
  /\ dpc = "done"
  /\ dpc' = "idle"
  /\ imageElement' = NoPage
  /\ detectOptions' = NoOptions
  /\ grid' = {}
  /\ smearedGrid' = {}
  /\ labels' = <<>>
  /\ currentLabel' = 1
  /\ scanFrom' = 0
  /\ blob' = NoBlob
  /\ stack' = <<>>
  /\ blobBounds' = <<>>
  /\ rects' = <<>>
  /\ writes' = <<>>
  /\ UNCHANGED <<cropVars, appVars>>

\* crops and detections in any sequence.  detectSignatures runs to its end
\* without yielding, and the application awaits each crop (part_000 lines
\* 422-444), so a call begins when no other is in progress.
CropCall == dpc = "idle" /\ InvokeRepeat
CropAgain == Again /\ prev' = prev
DetectStart ==
  /\ pc = "idle"
  /\ dpc = "idle"
  /\ \E a \in Window :
       DetectCall(Page(processWidth, cellSize * WindowH, Marks({a})), NoOptions)

NextSource == CropCall \/ Stages \/ CropAgain \/ DetectStart \/ Detection \/ DetectAgain

SpecSource == Init /\ [][NextSource]_vars

\* the page whose ink is one black pixel in each of the cells: the last
\* pixel of the cell that lies on the analysis raster
MarksOn(img, cells) ==
  [q \in {<<cellSize * c[1] + cellSize - 1,
            Min(cellSize * c[2] + cellSize - 1, processHeight(img) - 1)>> : c \in cells}
     |-> Black]

\* a pen stroke: a run of nh cells to the right of cell (x, y) and a run of
\* nv cells below it
Stroke(x, y, nh, nv) ==
  {<<x + i, y>> : i \in 0..(nh - 1)} \cup {<<x, y + j>> : j \in 0..(nv - 1)}

\* natural sizes: 4:3 at scale 1 and 2, a tall page, a page whose analysis
\* height is rounded and ends in a partial row of cells, two strips
PageSizes ==
  {<<800, 600>>, <<1600, 1200>>, <<800, 1140>>, <<333, 500>>, <<1000, 30>>, <<800, 100>>}

\* <<first column, cells>> of the horizontal run: at, next to and away from
\* the left edge, next to and at the right edge
XRuns == {<<0, 1>>, <<1, 1>>, <<12, 17>>, <<78, 2>>, <<79, 1>>}

\* <<first row, cells>> of the vertical run on a grid of gh rows: at the top
\* edge, runs around four and at five times the narrowest width, the
\* signature of three rows, at the bottom edge
YRuns(gh) ==
  {r \in {<<0, 1>>, <<2, 10>>, <<2, 11>>, <<2, 13>>, <<21, 3>>,
          <<gh - 3, 3>>, <<gh - 1, 1>>} :
     r[1] >= 0 /\ r[1] + r[2] <= gh}

\* the fractions detectSignatures is called with: none, or all three
OptionSets == {NoOptions, DetectOptions(10, 50, 5)}

\* pages: one stroke on a page
InvokePage ==
  /\ dpc = "idle"
  /\ \E size \in PageSizes, opts \in OptionSets :
       LET blank == Page(size[1], size[2], <<>>)
       IN \E xr \in XRuns, yr \in YRuns(gridH(blank)) :
            DetectCall(Page(size[1], size[2],
                            MarksOn(blank, Stroke(xr[1], yr[1], xr[2], yr[2]))), opts)

\* frames: on a grid of 10 rows, a stroke whose blob is 72 or 73 cells wide
\* and 9 or 10 cells high
InvokeFrame ==
  /\ dpc = "idle"
  /\ \E nh \in {68, 69}, nv \in {7, 8}, opts \in OptionSets :
       LET blank == Page(800, 100, <<>>)
       IN DetectCall(Page(800, 100, MarksOn(blank, Stroke(4, 1, nh, nv))), opts)

\* an 800 x 600 page with a frame stroke, a vertical bar and a signature
InvokeScenario ==
  /\ dpc = "idle"
  /\ LET blank == Page(800, 600, <<>>)
     IN DetectCall(Page(800, 600,
                        MarksOn(blank, Stroke(4, 2, 72, 55) \cup Stroke(40, 10, 1, 23)
                                         \cup Stroke(12, 21, 17, 3))), NoOptions)

NextPage == InvokePage \/ InvokeFrame \/ InvokeScenario \/ Detection

SpecPage == Init /\ [][NextPage]_vars

(* --------------------------------- App --------------------------------- *)
\* images[0]: the page the extraction is drawn on, an ink pixel and a paper pixel
SourcePage == Raster(2, 1, <<Black, White>>)

\* part_000 line 495
defaultSettings == Settings(TRUE, 160, FALSE, FALSE)

\* the updates the controls of an extraction send (part_000 lines 836-878)
Updates == {<<"enhance", FALSE>>, <<"enhance", TRUE>>, <<"invert", FALSE>>, <<"invert", TRUE>>}

\* { ...settings, ...updates }
Merge(settings, u) == [settings EXCEPT ![u[1]] = u[2]]

\* the masks the eraser saves: marks on the first pixel, the second, or both
SavedMasks == {Mask(Raster(2, 1, d)) : d \in {<<Black, Transparent>>, <<Transparent, Black>>,
                                               <<Black, Black>>}}

\* prev.map(ex => ex.id === id ? f(ex) : ex)
MapId(id, F(_)) ==
  [k \in 1..Len(extractions) |->
     IF extractions[k].id = id THEN F(extractions[k]) ELSE extractions[k]]

\* line 498 and its like: Math.random().toString(36).substring(7), an id no
\* extraction had before; n extractions were made before this one
NewId(n) == "sig" \o ToString(n + 1)

\* lines 479-510, handleMouseUp: the rectangle drawn becomes an extraction
CreateExtraction ==
  /\ extractions = <<>>
  /\ Cardinality(deleted) < MaxCreated
  /\ extractions' = <<Extraction(NewId(Cardinality(deleted)), Rect(0, 0, 2, 1),
                                 cropImage(SourcePage, Rect(0, 0, 2, 1), defaultSettings, NoMask),
                                 NoMask, defaultSettings)>>
  /\ UNCHANGED <<calls, editingItem, selectedImageIndex, scan, deleted>>
  /\ UNCHANGED <<cropVars, detectVars>>

\* lines 520-548, updateExtractionSettings up to its await: the extraction is
\* taken from the extractions of the render, the settings are updated at once,
\* and the invocation waits for cropImage with what it took
UpdateStart(id, updates) ==
  /\ editingItem = NoItem
  /\ Cardinality(calls) < MaxInFlight
  /\ \E k \in 1..Len(extractions) :
       /\ extractions[k].id = id
       /\ LET extraction == extractions[k]
              Optimistic(ex) == [ex EXCEPT !.settings = Merge(ex.settings, updates)]
          IN /\ extractions' = MapId(id, Optimistic)
             /\ calls' = calls \cup {[kind |-> "update", id |-> id,
                                      naturalCrop |-> extraction.naturalCrop,
                                      settings |-> Merge(extraction.settings, updates),
                                      mask |-> extraction.editMaskUrl]}
  /\ UNCHANGED <<editingItem, selectedImageIndex, scan, deleted>>
  /\ UNCHANGED <<cropVars, detectVars>>

\* the completion of an update, were it to put the extraction back when the
\* list no longer holds it
UpdateFinishUpsert(call) ==
  /\ call \in calls
  /\ call.kind = "update"
  /\ LET newUrl == cropImage(SourcePage, call.naturalCrop, call.settings, call.mask)
         Stored(ex) == [ex EXCEPT !.settings = call.settings, !.imageUrl = newUrl]
     IN IF \E k \in 1..Len(extractions) : extractions[k].id = call.id
          THEN extractions' = MapId(call.id, Stored)
          ELSE extractions' = Append(extractions,
                                     Extraction(call.id, call.naturalCrop, newUrl, call.mask,
                                                call.settings))
  /\ calls' = calls \ {call}
  /\ UNCHANGED <<editingItem, selectedImageIndex, scan, deleted>>
  /\ UNCHANGED <<cropVars, detectVars>>

\* lines 548-552: cropImage has resolved
UpdateFinish(call) ==
  /\ call \in calls
  /\ call.kind = "update"
  /\ LET newUrl == cropImage(SourcePage, call.naturalCrop, call.settings, call.mask)
         Stored(ex) == [ex EXCEPT !.settings = call.settings, !.imageUrl = newUrl]
     IN extractions' = MapId(call.id, Stored)
  /\ calls' = calls \ {call}
  /\ UNCHANGED <<editingItem, selectedImageIndex, scan, deleted>>
  /\ UNCHANGED <<cropVars, detectVars>>

\* line 813: the eraser is opened on an extraction
OpenEditor(id) ==
  /\ editingItem = NoItem
  /\ \E k \in 1..Len(extractions) :
       extractions[k].id = id /\ editingItem' = extractions[k]
  /\ UNCHANGED <<extractions, calls, selectedImageIndex, scan, deleted>>
  /\ UNCHANGED <<cropVars, detectVars>>

\* line 619: the eraser is closed without saving
CloseEditor ==
  /\ editingItem # NoItem
  /\ editingItem' = NoItem
  /\ UNCHANGED <<extractions, calls, selectedImageIndex, scan, deleted>>
  /\ UNCHANGED <<cropVars, detectVars>>

\* lines 189-196 and 556-572: Save Edits hands the mask to
\* handleSaveEditedMask, which waits for cropImage with the settings of
\* editingItem, and closes the eraser
SaveStart(newMaskUrl) ==
  /\ editingItem # NoItem
  /\ Cardinality(calls) < MaxInFlight
  /\ calls' = calls \cup {[kind |-> "save", id |-> editingItem.id,
                           naturalCrop |-> editingItem.naturalCrop,
                           settings |-> editingItem.settings,
                           mask |-> newMaskUrl]}
  /\ editingItem' = NoItem
  /\ UNCHANGED <<extractions, selectedImageIndex, scan, deleted>>
  /\ UNCHANGED <<cropVars, detectVars>>

\* lines 572-581: cropImage has resolved
SaveFinish(call) ==
  /\ call \in calls
  /\ call.kind = "save"
  /\ LET newUrl == cropImage(SourcePage, call.naturalCrop, call.settings, call.mask)
         Stored(ex) == [ex EXCEPT !.editMaskUrl = call.mask, !.imageUrl = newUrl]
     IN extractions' = MapId(call.id, Stored)
  /\ calls' = calls \ {call}
  /\ editingItem' = NoItem
  /\ UNCHANGED <<selectedImageIndex, scan, deleted>>
  /\ UNCHANGED <<cropVars, detectVars>>

\* lines 512-514 and 803: the delete button of an extraction.  The eraser
\* covers the page while it is open.
deleteExtraction(id) ==
  /\ editingItem = NoItem
  /\ \E k \in 1..Len(extractions) : extractions[k].id = id
  /\ extractions' = SelectSeq(extractions, LAMBDA ex : ex.id # id)
  /\ deleted' = deleted \cup {id}
  /\ UNCHANGED <<calls, editingItem, selectedImageIndex, scan>>
  /\ UNCHANGED <<cropVars, detectVars>>

NextApp ==
  \/ CreateExtraction
  \/ \E k \in 1..Len(extractions), u \in Updates : UpdateStart(extractions[k].id, u)
  \/ \E call \in calls : UpdateFinish(call)
  \/ \E k \in 1..Len(extractions) : OpenEditor(extractions[k].id)
  \/ CloseEditor
  \/ \E m \in SavedMasks : SaveStart(m)
  \/ \E call \in calls : SaveFinish(call)
  \/ \E k \in 1..Len(extractions) : deleteExtraction(extractions[k].id)

SpecApp == Init /\ [][NextApp]_vars

(* ------------------------------ App: scans ----------------------------- *)
\* images of the scans: two pages of different natural sizes, large enough
\* for the size test of line 394, with ink in columns 0 and 6 of the first
\* and in row 0 of the second
images ==
  <<Raster(12, 6, [i \in 1..72 |-> IF ((i - 1) % 12) % 6 = 0 THEN Black ELSE White]),
    Raster(16, 8, [i \in 1..128 |-> IF (i - 1) \div 16 = 0 THEN Black ELSE White])>>

\* imageRef.current: the img element of line 742.  It shows the selected
\* page; the time the element takes to load a newly selected page is left out.
imageRef == images[selectedImageIndex + 1]

\* rectangles as the service returns them, relative to the page, in
\* quarters: the left half, the right half, the left quarter
RelRects == {<<0, 0, 2, 4>>, <<2, 0, 2, 4>>, <<0, 0, 1, 4>>}

\* lines 387-392: the rectangle in natural pixels of a page of w x h
naturalCropOf(rel, w, h) ==
  Rect((rel[1] * w) \div 4, (rel[2] * h) \div 4, (rel[3] * w) \div 4, (rel[4] * h) \div 4)

\* the lists of at most two elements of S
UpToTwo(S) == {<<>>} \cup {<<a>> : a \in S} \cup {<<a, b>> : a \in S, b \in S}

\* what detectSignatures may resolve to for a page: rectangles in natural
\* pixels inside it (its left and its right half)
DetectedRects(page) ==
  {Rect(0, 0, page.width \div 2, page.height),
   Rect(page.width \div 2, 0, page.width \div 2, page.height)}

\* lines 395-404 and 433-442 for every rectangle of the list, and lines 407
\* and 444.  cropImage without a mask never waits, so from the first crop to
\* setExtractions no other handler runs: every crop is taken from the page
\* imageRef shows now, and every extraction records the selectedImageIndex
\* of the closure.
Scanned(crops) ==
  [k \in 1..Len(crops) |->
     [Extraction(NewId(Cardinality(deleted) + Len(extractions) + k - 1), crops[k],
                 cropImage(imageRef, crops[k], defaultSettings, NoMask),
                 NoMask, defaultSettings)
        EXCEPT !.sourceImageIndex = scan.index]]

\* line 676: a page is selected in the side bar; the button is never disabled
SelectPage(idx) ==
  /\ idx # selectedImageIndex
  /\ selectedImageIndex' = idx
  /\ UNCHANGED <<extractions, calls, editingItem, scan, deleted>>
  /\ UNCHANGED <<cropVars, detectVars>>

\* lines 358-371, handleGeminiScan to its awaits: the page of the closure is
\* sent to the service (the scan buttons are disabled during a scan)
GeminiStart ==
  /\ scan = NoScan
  /\ Len(extractions) < MaxScanned
  /\ scan' = [kind |-> "gemini", index |-> selectedImageIndex]
  /\ UNCHANGED <<extractions, calls, editingItem, selectedImageIndex, deleted>>
  /\ UNCHANGED <<cropVars, detectVars>>

\* lines 371-413: the service has answered with detectedRects
GeminiResponse(detectedRects) ==
  /\ scan.kind = "gemini"
  /\ LET Big(c) == c.width > 5 /\ c.height > 5
         crops == [k \in 1..Len(detectedRects) |->
                     naturalCropOf(detectedRects[k], imageRef.width, imageRef.height)]
     IN extractions' = extractions \o Scanned(SelectSeq(crops, Big))
  /\ scan' = NoScan
  /\ UNCHANGED <<calls, editingItem, selectedImageIndex, deleted>>
  /\ UNCHANGED <<cropVars, detectVars>>

\* lines 417-420, handleAutoDetect: the timer is set
AutoStart ==
  /\ scan = NoScan
  /\ Len(extractions) < MaxScanned
  /\ scan' = [kind |-> "auto", index |-> selectedImageIndex]
  /\ UNCHANGED <<extractions, calls, editingItem, selectedImageIndex, deleted>>
  /\ UNCHANGED <<cropVars, detectVars>>

\* lines 420-450: the timer fires; detectSignatures runs on the page
\* imageRef shows and resolves before anything else can run
AutoTimer(detectedRects) ==
  /\ scan.kind = "auto"
  /\ extractions' = extractions \o Scanned(detectedRects)
  /\ scan' = NoScan
  /\ UNCHANGED <<calls, editingItem, selectedImageIndex, deleted>>
  /\ UNCHANGED <<cropVars, detectVars>>

NextScan ==
  \/ \E idx \in 0..(Len(images) - 1) : SelectPage(idx)
  \/ GeminiStart
  \/ \E detectedRects \in UpToTwo(RelRects) : GeminiResponse(detectedRects)
  \/ AutoStart
  \/ \E detectedRects \in UpToTwo(DetectedRects(imageRef)) : AutoTimer(detectedRects)

SpecScan == Init /\ [][NextScan]_vars

(* ------------------------------ properties ----------------------------- *)
\* a raster was produced for the invocation in progress
Cropped == pc \notin {"idle"} /\ log # <<>>

\* the raster right after the copy
Copied == log[1][2]

\* the names of the stages that ran, in order
StageNames == [i \in 1..Len(log) |-> log[i][1]]

\* C1: whenever cropImage produces a raster, its origin is (max(0,x), max(0,y)),
\* origin + emitted extent stays within the source on both axes, the emitted
\* extents do not exceed the source's, and every copied pixel is the source
\* pixel at origin + offset, a pixel inside the source.
C1_ClampWithinSource ==
  Cropped =>
    /\ pixelX = (IF crop.x > 0 THEN crop.x ELSE 0)
    /\ pixelY = (IF crop.y > 0 THEN crop.y ELSE 0)
    /\ Copied.width = pixelWidth /\ Copied.height = pixelHeight
    /\ pixelX + Copied.width <= sourceImage.width
    /\ pixelY + Copied.height <= sourceImage.height
    /\ Copied.width <= sourceImage.width
    /\ Copied.height <= sourceImage.height
    /\ \A x \in 0..(Copied.width - 1), y \in 0..(Copied.height - 1) :
         /\ pixelX + x \in 0..(sourceImage.width - 1)
         /\ pixelY + y \in 0..(sourceImage.height - 1)
         /\ At(Copied, x, y) = At(sourceImage, pixelX + x, pixelY + y)

\* C1 witness: a rectangle sticking out on the left, right, top and bottom
\* was cropped to the whole source
C1_Witness ==
  /\ pc = "done" /\ result.mime = "image/png"
  /\ crop.x < 0 /\ crop.y < 0
  /\ crop.width > sourceImage.width /\ crop.height > sourceImage.height
  /\ Copied.width = sourceImage.width /\ Copied.height = sourceImage.height
  /\ sourceImage.width > 1 /\ sourceImage.height > 1

\* C2: the result is the empty string, returned as a value with no stage
\* run, exactly when the clamped width or height is <= 0
C2_EmptyIffDegenerate ==
  pc # "idle" =>
    LET w == (IF sourceImage.width - pixelX <= Abs(crop.width)
                THEN sourceImage.width - pixelX ELSE Abs(crop.width))
        h == (IF sourceImage.height - pixelY <= Abs(crop.height)
                THEN sourceImage.height - pixelY ELSE Abs(crop.height))
    IN IF w <= 0 \/ h <= 0
         THEN pc = "done" /\ result = EmptyString /\ log = <<>>
         ELSE /\ result # EmptyString
              /\ log # <<>>
              /\ pc = "done" => result.mime = "image/png"

\* C2 witness: the origin on the right edge, every stage requested
C2_Witness ==
  /\ pc = "done" /\ result = EmptyString
  /\ crop.x = sourceImage.width /\ crop.width > 0 /\ crop.height > 0
  /\ crop.y = 0
  /\ options.enhance /\ options.removeBorders /\ maskUrl.kind = "image"

\* C3 as stated: a rectangle of negative width or height yields the empty result
C3_NegativeExtentIsEmpty ==
  (pc = "done" /\ (crop.width < 0 \/ crop.height < 0)) => result = EmptyString

\* C3 amended: a negative width or height counts by its absolute value; the
\* result is empty exactly when min(natural extent - origin, |extent|) <= 0
\* on some axis, and otherwise a raster of those extents
C3_NegativeExtentIsAbsolute ==
  (pc = "done" /\ (crop.width < 0 \/ crop.height < 0)) =>
    LET aw == IF crop.width < 0 THEN 0 - crop.width ELSE crop.width
        ah == IF crop.height < 0 THEN 0 - crop.height ELSE crop.height
        ox == IF crop.x > 0 THEN crop.x ELSE 0
        oy == IF crop.y > 0 THEN crop.y ELSE 0
        w == IF sourceImage.width - ox <= aw THEN sourceImage.width - ox ELSE aw
        h == IF sourceImage.height - oy <= ah THEN sourceImage.height - oy ELSE ah
    IN IF w <= 0 \/ h <= 0
         THEN result = EmptyString
         ELSE result.mime = "image/png" /\ result.width = w /\ result.height = h

\* C3 witness: a negative width inside the source gave a raster
C3_Witness ==
  /\ pc = "done" /\ crop.width < 0 /\ crop.height > 0
  /\ result.mime = "image/png" /\ result.width = 1

\* the stages cropImage is to run for its arguments, in order
ExpectedStages ==
  <<"copy">>
    \o (IF options.removeBorders THEN <<"border">> ELSE <<>>)
    \o (IF options.enhance THEN <<"binarize">> ELSE <<>>)
    \o (IF maskUrl.kind # "none" THEN <<"mask">> ELSE <<>>)
    \o (IF maskUrl.kind = "image" THEN <<"composite">> ELSE <<>>)

\* C4: the stages run in the order copy, border suppression, binarization,
\* mask; each runs iff its trigger is set; the mask is last and the result
\* is the raster it leaves
C4_StageOrder ==
  /\ Cropped =>
       /\ Len(StageNames) <= Len(ExpectedStages)
       /\ StageNames = SubSeq(ExpectedStages, 1, Len(StageNames))
  /\ (pc = "done" /\ result # EmptyString) =>
       /\ StageNames = ExpectedStages
       /\ result = toDataURL(log[Len(log)][2])

\* C4 witness: all three triggers set, all four stages ran
C4_Witness ==
  /\ pc = "done"
  /\ StageNames = <<"copy", "border", "binarize", "mask", "composite">>
  /\ log[2][2] # log[1][2] /\ log[3][2] # log[2][2] /\ log[5][2] # log[3][2]

\* the stage called name ran; its position in the log
Ran(name) == Cropped /\ \E i \in 1..Len(log) : log[i][1] = name
StageIndex(name) == CHOOSE i \in 1..Len(log) : log[i][1] = name

\* the raster a stage found and the raster it left
Before(name) == log[StageIndex(name) - 1][2]
After(name) == log[StageIndex(name)][2]

\* C5: the binarizer paints a pixel as ink exactly when the border
\* suppressor's predicate isDark calls it dark, for the threshold and invert
\* of the call: ink (solid black) iff isDark, background (alpha 0) iff not
C5_SameInkDecision ==
  Ran("binarize") =>
    \A j \in 1..Len(Before("binarize").data) :
      LET p == Before("binarize").data[j]
          q == After("binarize").data[j]
      IN p[4] # 0 =>
           /\ isDark(p[1], p[2], p[3], options.threshold, options.invert) <=> q = Black
           /\ ~isDark(p[1], p[2], p[3], options.threshold, options.invert) <=> q[4] = 0

\* C5 witness: a pixel on the threshold (black at threshold 0) was painted
\* ink next to one painted background
C5_Witness ==
  /\ Ran("binarize") /\ options.threshold = 0 /\ ~options.invert
  /\ \E j, k \in 1..Len(Before("binarize").data) :
       /\ Before("binarize").data[j] = Black /\ After("binarize").data[j] = Black
       /\ Before("binarize").data[k] = Red /\ After("binarize").data[k][4] = 0

\* the ink pixels of row y and of column x, by the predicate of the call
InkInRow(img, y) ==
  Cardinality({x \in 0..(img.width - 1) :
    isDark(At(img, x, y)[1], At(img, x, y)[2], At(img, x, y)[3],
           options.threshold, options.invert)})
InkInCol(img, x) ==
  Cardinality({y \in 0..(img.height - 1) :
    isDark(At(img, x, y)[1], At(img, x, y)[2], At(img, x, y)[3],
           options.threshold, options.invert)})

\* the ink fraction is above 0.65
DenseRow(img, y) == InkInRow(img, y) * 100 > 65 * img.width
DenseCol(img, x) == InkInCol(img, x) * 100 > 65 * img.height

C7_SparseRowUntouched ==
  Ran("border") =>
    \A y \in 0..(Before("border").height - 1) :
      /\ ~DenseRow(Before("border"), y) =>
           \A x \in 0..(Before("border").width - 1) :
             At(After("border"), x, y) = At(Before("border"), x, y)
      /\ InkInRow(Before("border"), y) = Before("border").width =>
           \A x \in 0..(Before("border").width - 1) : At(After("border"), x, y)[4] = 0

\* C7 amended: a pixel of a row at or below the cutoff changes only where
\* its column is above the cutoff, and a fully ink row becomes transparent
C7_SparseRowKeptOffDenseColumns ==
  Ran("border") =>
    \A y \in 0..(Before("border").height - 1) :
      /\ ~DenseRow(Before("border"), y) =>
           \A x \in 0..(Before("border").width - 1) :
             \/ At(After("border"), x, y) = At(Before("border"), x, y)
             \/ DenseCol(Before("border"), x)
      /\ InkInRow(Before("border"), y) = Before("border").width =>
           \A x \in 0..(Before("border").width - 1) : At(After("border"), x, y)[4] = 0

\* C7 witness: under a fully black top row made transparent, a row of 50%
\* ink kept all its pixels
C7_Witness ==
  /\ Ran("border") /\ ~options.invert
  /\ Before("border").width = 2 /\ Before("border").height = 4
  /\ Before("border").data = <<Black, Black, White, White, Black, White, White, White>>
  /\ After("border").data = <<Transparent, Transparent, White, White,
                              Black, White, White, White>>

\* C8: a pixel that border suppression made transparent is still
\* transparent after binarization
C8_TransparencyTerminal ==
  (Ran("border") /\ Ran("binarize")) =>
    \A j \in 1..Len(After("border").data) :
      (Before("border").data[j][4] # 0 /\ After("border").data[j][4] = 0)
        => After("binarize").data[j][4] = 0

\* C8 witness: an opaque pixel was cleared by border suppression and then
\* met the binarizer
C8_Witness ==
  /\ Ran("border") /\ Ran("binarize") /\ pc = "done"
  /\ \E j \in 1..Len(After("border").data) :
       /\ Before("border").data[j][4] = 255
       /\ After("border").data[j][4] = 0
       /\ After("binarize").data[j][4] = 0
  /\ \E k \in 1..Len(After("border").data) : After("binarize").data[k] = Black

\* C9 as stated: binarizing the binarizer's output again changes nothing
C9_Idempotent ==
  Ran("binarize") =>
    applyBinarization(After("binarize"), options.threshold, options.invert)
      = After("binarize")

\* C9 amended: with invert off, or with threshold 255, binarizing the
\* binarizer's output again changes nothing
C9_IdempotentUnlessInverted ==
  (Ran("binarize") /\ (~options.invert \/ options.threshold = 255)) =>
    applyBinarization(After("binarize"), options.threshold, options.invert)
      = After("binarize")

\* C9 witness: a first pass that painted ink and cleared background
C9_Witness ==
  /\ Ran("binarize") /\ ~options.invert /\ options.threshold = 128
  /\ After("binarize") # Before("binarize")
  /\ \E j, k \in 1..Len(After("binarize").data) :
       /\ After("binarize").data[j] = Black /\ Before("binarize").data[j] = Red
       /\ After("binarize").data[k][4] = 0 /\ Before("binarize").data[k] = White

\* C10: an invocation with the arguments of an earlier invocation resolves
\* to the result of the earlier one
C10_Deterministic ==
  (pc = "done" /\ prev.input = CurrentInput) => result = prev.result

\* C10 witness: the same arguments were used again, on a source with a
\* transparent and an opaque pixel
C10_Witness ==
  /\ pc = "done" /\ prev.input = CurrentInput
  /\ result.mime = "image/png"
  /\ sourceImage.data = <<Transparent, Black>>
  /\ ~options.enhance
  /\ result = prev.result

\* the mask was loaded and composited over an image of this invocation
Erased == pc = "done" /\ result.mime = "image/png" /\ maskUrl.kind = "image"

\* the mask pixel that the stretch over the canvas puts on output pixel j
MaskPixelOn(j) ==
  At(maskUrl.img, (((j - 1) % result.width) * maskUrl.img.width) \div result.width,
                  (((j - 1) \div result.width) * maskUrl.img.height) \div result.height)

\* C11 as stated: wherever the Edit Mask has any non-zero alpha, the output
\* pixel of cropImage is fully transparent
C11_AnyMarkErases ==
  Erased =>
    \A j \in 1..Len(result.data) : MaskPixelOn(j)[4] # 0 => result.data[j][4] = 0

\* C11, what the compositing does: under a mask of the crop's own dimensions an
\* output pixel has
\* the alpha it had before the mask scaled by 1 - mask alpha; it is fully
\* transparent under a fully opaque mark, whatever the border suppression
\* and the binarization made of it, and an opaque pixel under a mark of
\* partial alpha stays partly visible
C11_OpaqueMarkErases ==
  (Erased /\ maskUrl.img.width = result.width /\ maskUrl.img.height = result.height) =>
    \A j \in 1..Len(result.data) :
      LET m == maskUrl.img.data[j][4]
          a == Before("composite").data[j][4]
      IN /\ result.data[j][4] = (a * (255 - m)) \div 255
         /\ m = 255 => result.data[j][4] = 0
         /\ (m < 255 /\ a = 255) => result.data[j][4] > 0

\* C11 witness: one output holds a pixel erased by an opaque mark, a pixel
\* left half visible by a partial mark and a pixel the mask leaves alone
C11_Witness ==
  /\ Erased /\ maskUrl.img.width = result.width /\ Len(result.data) = 3
  /\ maskUrl.img.data = <<Black, <<0, 0, 0, 128>>, Transparent>>
  /\ Before("composite").data = <<Black, Black, Black>>
  /\ result.data = <<Transparent, <<0, 0, 0, 127>>, Black>>

\* C12: when the mask does not load, the invocation still resolves, to the
\* result of the same source, rectangle and settings without a mask
C12_MaskFailureIgnored ==
  (pc = "loading" /\ maskUrl.kind = "bad")
    ~> (pc = "done" /\ maskUrl.kind = "bad"
        /\ result = cropImage(sourceImage, crop, options, NoMask))

\* C12 witness: an invocation whose mask failed resolved to an image with
\* a visible pixel
C12_Witness ==
  /\ pc = "done" /\ maskUrl.kind = "bad"
  /\ result.mime = "image/png"
  /\ \E j \in 1..Len(result.data) : result.data[j][4] = 255
  /\ result = cropImage(sourceImage, crop, options, NoMask)

\* C13: no step of a crop (copy, border suppression, binarization, mask
\* compositing, encoding) and no step of a detection writes to the source
\* raster: from the call to its end the source is what it was
C13_SourceUntouched ==
  [][/\ (pc # "idle" /\ pc' # "idle") => sourceImage' = sourceImage
     /\ (dpc # "idle" /\ dpc' # "idle") => imageElement' = imageElement]_vars

\* C13 witness: a crop whose border suppression cleared the copy has
\* finished, and the source still holds its ink
C13_Witness ==
  /\ pc = "done" /\ Ran("border")
  /\ sourceImage.data = <<Black, Black>>
  /\ After("border").data = <<Transparent, Transparent>>
  /\ result.data # sourceImage.data

\* the labeling of the invocation in progress has finished
Labeled == dpc \in {"filter", "done"}

\* C14: when the only active cells of the density grid are two cells of one
\* row, at horizontal distance 3 they end in one blob after dilation and
\* labeling, at horizontal distance 6 in two blobs
C14_DilationBridges ==
  Labeled =>
    \A a, b \in grid :
      (grid = {a, b} /\ a \div gridW = b \div gridW) =>
        /\ b - a = 3 => (Label(a) = Label(b) /\ Label(a) # 0 /\ DOMAIN blobBounds = {1})
        /\ b - a = 6 => (Label(a) # Label(b) /\ Label(a) # 0 /\ Label(b) # 0
                         /\ DOMAIN blobBounds = {1, 2})

\* C14 witness: two cells at distance 3, away from the edges, in one blob of
\* 8 x 3 cells
C14_Witness ==
  /\ dpc = "done"
  /\ grid = {gridW + 2, gridW + 5}
  /\ Label(gridW + 2) = 1 /\ Label(gridW + 5) = 1
  /\ blobBounds = <<[minX |-> 0, maxX |-> 7, minY |-> 0, maxY |-> 2, count |-> 24]>>
  /\ Len(rects) = 1

\* two cells of the grid share an edge
Adjacent(i, j) ==
  \/ (i \div gridW = j \div gridW /\ (i - j = 1 \/ j - i = 1))
  \/ (i - j = gridW \/ j - i = gridW)

\* the cells a path of edge-sharing active cells joins to the cells of S
RECURSIVE Component(_)
Component(S) ==
  LET N == S \cup {j \in smearedGrid : \E i \in S : Adjacent(i, j)}
  IN IF N = S THEN S ELSE Component(N)

\* C15: when labeling finishes every active cell of the dilated grid carries
\* a non-zero label written exactly once, every other cell carries 0, and
\* two active cells carry the same label exactly when a path of 4-adjacent
\* active cells joins them (in particular two 4-adjacent active cells do,
\* and cells that touch only at a corner need not)
C15_LabelsAreComponents ==
  Labeled =>
    /\ DOMAIN labels = smearedGrid
    /\ DOMAIN writes = smearedGrid
    /\ \A i \in smearedGrid : labels[i] \in DOMAIN blobBounds /\ labels[i] # 0 /\ writes[i] = 1
    /\ \A i, j \in smearedGrid : Adjacent(i, j) => labels[i] = labels[j]
    /\ \A l \in DOMAIN blobBounds :
         LET cells == {j \in smearedGrid : labels[j] = l}
         IN cells # {} /\ cells = Component({CHOOSE c \in cells : TRUE})

\* C15 witness: two blobs that touch at a corner only, with different labels
C15_Witness ==
  /\ dpc = "done"
  /\ grid = {0, 3 * gridW + 5}
  /\ gridW + 2 \in smearedGrid /\ 2 * gridW + 3 \in smearedGrid
  /\ gridW + 3 \notin smearedGrid /\ 2 * gridW + 2 \notin smearedGrid
  /\ labels[gridW + 2] = 1 /\ labels[2 * gridW + 3] = 2

\* the rectangles of the blobs, in the order of their labels, that Keep keeps
RectsOf(Keep(_)) ==
  LET kept == SelectSeq(blobBounds, Keep)
  IN [k \in 1..Len(kept) |-> rectOf(imageElement, kept[k])]

\* C16: a blob of grid width w and height h is emitted if and only if none of
\* these holds: w < minWidthFraction * gridW or h < minHeightFraction * gridH
\* (defaults 0.05 and 0.02); w > maxWidthFraction * gridW and h > 0.9 * gridH
\* (default 0.90); h > 4 * w.  In particular a blob over 95% of the grid
\* width and height and a blob five times as high as wide are rejected.
C16_EmittedIffNotRejected ==
  dpc = "done" =>
    LET gw == 80
        gh == gridH(imageElement)
        minWidthFraction == IF detectOptions.minWidth = 0 THEN 5 ELSE detectOptions.minWidth
        maxWidthFraction == IF detectOptions.maxWidth = 0 THEN 90 ELSE detectOptions.maxWidth
        minHeightFraction == IF detectOptions.minHeight = 0 THEN 2 ELSE detectOptions.minHeight
        Rejected(w, h) ==
          \/ w * 100 < minWidthFraction * gw \/ h * 100 < minHeightFraction * gh
          \/ (w * 100 > maxWidthFraction * gw /\ h * 10 > 9 * gh)
          \/ h > 4 * w
        Passes(b) == ~Rejected(b.maxX - b.minX + 1, b.maxY - b.minY + 1)
    IN /\ rects = RectsOf(Passes)
       /\ \A l \in DOMAIN blobBounds :
            LET w == blobBounds[l].maxX - blobBounds[l].minX + 1
                h == blobBounds[l].maxY - blobBounds[l].minY + 1
            IN ((w * 100 >= 95 * gw /\ h * 100 >= 95 * gh) \/ h >= 5 * w)
                 => ~Passes(blobBounds[l])

\* C16 witness: of a frame of 76 x 57 cells on a grid of 80 x 60, a bar of
\* 5 x 25 cells and a signature of 21 x 5 cells, the signature alone is
\* emitted
C16_Witness ==
  /\ dpc = "done" /\ gridH(imageElement) = 60
  /\ blobBounds = <<[minX |-> 2, maxX |-> 77, minY |-> 1, maxY |-> 57, count |-> 498],
                    [minX |-> 38, maxX |-> 42, minY |-> 9, maxY |-> 33, count |-> 125],
                    [minX |-> 10, maxX |-> 30, minY |-> 20, maxY |-> 24, count |-> 73]>>
  /\ rects = <<rectOf(imageElement, blobBounds[3])>>

\* a blob with the bounding box of the scenario, on a grid of 80 x 60
ScenarioBlob(b) ==
  /\ gridH(imageElement) = 60
  /\ b.minX = 10 /\ b.minY = 20 /\ b.maxX = 30 /\ b.maxY = 24

\* rects holds the rectangle c * scale, scale being naturalWidth / 800
HoldsRect(cx, cy, cw, ch) ==
  \E k \in 1..Len(rects) :
    rects[k] = [x |-> cx * imageElement.naturalWidth, y |-> cy * imageElement.naturalWidth,
                width |-> cw * imageElement.naturalWidth,
                height |-> ch * imageElement.naturalWidth]

\* C17 as stated: on a grid of 80 x 60 the blob with bounding box minX 10,
\* minY 20, maxX 30, maxY 24 is emitted as x = 100 scale, y = 200 scale,
\* width = 230 scale, height = 70 scale
C17_ScenarioRect ==
  dpc = "done" =>
    \A l \in DOMAIN blobBounds :
      ScenarioBlob(blobBounds[l]) => HoldsRect(100, 200, 230, 70)

\* C17 amended: that blob passes the three filters and is emitted with the
\* padding of one cell on its origin too: x = 90 scale, y = 190 scale,
\* width = 230 scale, height = 70 scale
C17_ScenarioRectPadded ==
  dpc = "done" =>
    \A l \in DOMAIN blobBounds :
      ScenarioBlob(blobBounds[l]) =>
        /\ emitted(imageElement, detectOptions, blobBounds[l])
        /\ HoldsRect(90, 190, 230, 70)
        /\ ~HoldsRect(100, 200, 230, 70)

\* C17 witness: the blob alone on a 1600 x 1200 page, scale 2; the fields
\* are multiplied by 800
C17_Witness ==
  /\ dpc = "done"
  /\ imageElement.naturalWidth = 1600 /\ imageElement.naturalHeight = 1200
  /\ blobBounds = <<[minX |-> 10, maxX |-> 30, minY |-> 20, maxY |-> 24, count |-> 73]>>
  /\ rects = <<[x |-> 180 * 800, y |-> 380 * 800, width |-> 460 * 800, height |-> 140 * 800]>>

\* C18: every rectangle detectSignatures returns lies inside the natural
\* image: x >= 0, y >= 0, width > 0, height > 0, x + width <= naturalWidth,
\* y + height <= naturalHeight (the fields are multiplied by processWidth)
C18_RectsInsideImage ==
  dpc = "done" =>
    \A k \in 1..Len(rects) :
      /\ rects[k].x >= 0 /\ rects[k].y >= 0
      /\ rects[k].width > 0 /\ rects[k].height > 0
      /\ rects[k].x + rects[k].width <= imageElement.naturalWidth * processWidth
      /\ rects[k].y + rects[k].height <= imageElement.naturalHeight * processWidth

\* C18 witness: on the 333 x 500 page, whose last row of cells is partial, a
\* blob in the bottom right corner was cut to the image on both sides
C18_Witness ==
  /\ dpc = "done"
  /\ imageElement.naturalWidth = 333 /\ imageElement.naturalHeight = 500
  /\ Len(rects) = 1
  /\ blobBounds[1].maxX = gridW - 1 /\ blobBounds[1].maxY = gridH(imageElement) - 1
  /\ rects[1].x > 0 /\ rects[1].y > 0
  /\ rects[1].x + rects[1].width = 333 * processWidth
  /\ rects[1].y + rects[1].height = 500 * processWidth
  /\ rects[1] # rectOfUnclamped(imageElement, blobBounds[1])

\* the image cropImage makes of an extraction as it is stored
Reprocessed(ex) == cropImage(SourcePage, ex.naturalCrop, ex.settings, ex.editMaskUrl)

\* every pixel the stored mask of ex marks is transparent in its stored image
ErasedStayErased(ex) ==
  ex.editMaskUrl.kind = "image" =>
    \A j \in 1..Len(ex.imageUrl.data) :
      ex.editMaskUrl.img.data[j][4] = 255 => ex.imageUrl.data[j][4] = 0

C20_QuiescentConsistent ==
  calls = {} =>
    \A k \in 1..Len(extractions) : extractions[k].imageUrl = Reprocessed(extractions[k])

\* C21 as stated: every pixel of the raster cropImage copies is a source
\* pixel inside the requested rectangle [x, x + width) x [y, y + height),
\* also when x or y is negative (for rectangles of non-negative extents)
C21_CropInsideRequest ==
  (Cropped /\ crop.width >= 0 /\ crop.height >= 0) =>
    \A x \in 0..(Copied.width - 1), y \in 0..(Copied.height - 1) :
      /\ crop.x <= pixelX + x /\ pixelX + x < crop.x + crop.width
      /\ crop.y <= pixelY + y /\ pixelY + y < crop.y + crop.height
      /\ At(Copied, x, y) = At(sourceImage, pixelX + x, pixelY + y)

\* C21 witness: a rectangle of width 2 that starts one pixel left of the source
\* was cropped to columns 0 and 1, and column 1 is not in the rectangle
C21_Witness ==
  /\ pc = "done" /\ result.mime = "image/png"
  /\ crop = Rect(0 - 1, 0, 2, 1)
  /\ sourceImage.width = 3
  /\ pixelX = 0 /\ Copied.width = 2
  /\ At(Copied, 1, 0) = At(sourceImage, 1, 0)

\* the bounding box of b grown by one cell on each side, in natural pixels,
\* cut to the image (the fields multiplied by 800, as those of rects)
PaddedBox(b) ==
  LET nw == imageElement.naturalWidth
      nh == imageElement.naturalHeight
      x0 == IF (b.minX - 1) * 10 * nw > 0 THEN (b.minX - 1) * 10 * nw ELSE 0
      y0 == IF (b.minY - 1) * 10 * nw > 0 THEN (b.minY - 1) * 10 * nw ELSE 0
      x1 == IF (b.maxX + 2) * 10 * nw < nw * 800 THEN (b.maxX + 2) * 10 * nw ELSE nw * 800
      y1 == IF (b.maxY + 2) * 10 * nw < nh * 800 THEN (b.maxY + 2) * 10 * nw ELSE nh * 800
  IN [x |-> x0, y |-> y0, width |-> x1 - x0, height |-> y1 - y0]

\* the blobs that pass the filters, in the order of their labels
Survivors ==
  LET Keep(b) == emitted(imageElement, detectOptions, b)
  IN SelectSeq(blobBounds, Keep)

\* C22 as stated: the rectangle emitted for a surviving blob spans, on each
\* axis, from max(0, (min - 1) * cellSize * scale) to
\* min(natural extent, (max + 2) * cellSize * scale), also for a blob whose
\* minX or minY is 0
C22_RectIsPaddedBox ==
  dpc = "done" =>
    /\ Len(rects) = Len(Survivors)
    /\ \A k \in 1..Len(rects) : rects[k] = PaddedBox(Survivors[k])

\* C22, away from the top and left edges: for a surviving blob with
\* minX >= 1 and minY >= 1 the rectangle is that grown bounding box
C22_RectIsPaddedBoxInside ==
  dpc = "done" =>
    /\ Len(rects) = Len(Survivors)
    /\ \A k \in 1..Len(rects) :
         (Survivors[k].minX >= 1 /\ Survivors[k].minY >= 1) => rects[k] = PaddedBox(Survivors[k])

\* C22 witness: a blob in the top left corner of an 800 x 600 page, 4 x 2
\* cells from minX = 0 and minY = 0, emitted 60 wide and 40 high where its
\* grown box is 50 wide and 30 high
C22_Witness ==
  /\ dpc = "done"
  /\ imageElement.naturalWidth = 800 /\ imageElement.naturalHeight = 600
  /\ blobBounds = <<[minX |-> 0, maxX |-> 3, minY |-> 0, maxY |-> 1, count |-> 8]>>
  /\ rects = <<[x |-> 0, y |-> 0, width |-> 60 * 800, height |-> 40 * 800]>>
  /\ PaddedBox(blobBounds[1]) = [x |-> 0, y |-> 0, width |-> 50 * 800, height |-> 30 * 800]

\* C23: after applyBinarization every pixel whose alpha was non-zero is
\* solid opaque black (0, 0, 0, 255) when it is classified ink and fully
\* transparent when it is classified background, every pixel of the output
\* has alpha 0 or 255, and a pixel whose alpha was 0 is what it was
C23_BinarizedIsBlackOrClear ==
  Ran("binarize") =>
    \A j \in 1..Len(Before("binarize").data) :
      LET p == Before("binarize").data[j]
          q == After("binarize").data[j]
      IN /\ q[4] \in {0, 255}
         /\ IF p[4] = 0
              THEN q = p
              ELSE IF isDark(p[1], p[2], p[3], options.threshold, options.invert)
                     THEN q = <<0, 0, 0, 255>>
                     ELSE q[4] = 0

\* C23 witness: one pass made a half-transparent ink pixel solid black,
\* cleared a white pixel and left a transparent pixel alone
C23_Witness ==
  /\ Ran("binarize") /\ ~options.invert /\ options.threshold = 128
  /\ Before("binarize").data = <<Faint, White, Transparent>>
  /\ After("binarize").data = <<Black, Transparent, Transparent>>

\* the cells of the page that hold a drawn pixel (every drawn pixel of the
\* pages of the small grids is black)
InkedCells ==
  {(q[2] \div 10) * 80 + (q[1] \div 10) : q \in DOMAIN imageElement.drawn}

\* C24: the dilated grid is the one-pass dilation of the density grid: a
\* cell (x, y) of the grid is active in it iff some cell (x', y') active in
\* the input grid has |x - x'| <= 2 and |y - y'| <= 1; the cells the pass
\* activates do not spread further, and the input grid is what it was
C24_OnePassDilation ==
  dpc \notin {"idle", "dilate"} =>
    /\ grid = InkedCells
    /\ \A x \in 0..79, y \in 0..(gridH(imageElement) - 1) :
         (y * 80 + x) \in smearedGrid
           <=> \E c \in grid :
                 /\ x - (c % 80) \in (0 - 2)..2
                 /\ y - (c \div 80) \in (0 - 1)..1
    /\ \A c \in smearedGrid : c \in 0..(80 * gridH(imageElement) - 1)

\* C24 witness: one active cell away from the edges became 5 x 3 cells, and
\* one in the top left corner 3 x 2 cells, of which none spread again
C24_Witness ==
  /\ dpc = "scan" /\ labels = <<>>
  /\ grid = {0, 2 * gridW + 5}
  /\ Cardinality(smearedGrid) = 21
  /\ 2 * gridW + 7 \in smearedGrid /\ 2 * gridW + 8 \notin smearedGrid
  /\ 3 \notin smearedGrid /\ gridW + 3 \in smearedGrid

\* the analysis pixel q of the page is ink against the cutoff 180
InkAt(q) ==
  LET p == imageElement.drawn[q]
  IN 299 * p[1] + 587 * p[2] + 114 * p[3] < 180 * 1000

C26_BoundsAreTight ==
  \A l \in DOMAIN blobBounds :
    LET b == blobBounds[l]
        cells == {i \in DOMAIN labels : labels[i] = l}
    IN /\ cells # {}
       /\ b.count = Cardinality(cells)
       /\ \A i \in cells : /\ b.minX <= i % 80 /\ i % 80 <= b.maxX
                           /\ b.minY <= i \div 80 /\ i \div 80 <= b.maxY
       /\ \E i \in cells : i % 80 = b.minX
       /\ \E i \in cells : i % 80 = b.maxX
       /\ \E i \in cells : i \div 80 = b.minY
       /\ \E i \in cells : i \div 80 = b.maxY
       /\ 0 <= b.minX /\ b.minX <= b.maxX /\ b.maxX < 80
       /\ 0 <= b.minY /\ b.minY <= b.maxY /\ b.maxY < (processHeight(imageElement) + 9) \div 10

\* C26 witness: a blob of two neighbourhoods offset by two rows, against the
\* left and top edges: 23 cells in a box of 9 x 4
C26_Witness ==
  /\ dpc = "done"
  /\ grid = {1, 2 * gridW + 6}
  /\ blobBounds = <<[minX |-> 0, maxX |-> 8, minY |-> 0, maxY |-> 3, count |-> 23]>>

\* C27: the traversal of the work list terminates on every grid: a cell is
\* put on the work list at most once, and only an active cell is (it is
\* labelled before it is pushed), so the pushes of a whole call and the
\* length of the work list are at most the number of active cells; the
\* work list of every blob becomes empty, and the call reaches its end
C27_WorkListTerminates ==
  /\ [](/\ DOMAIN writes \subseteq smearedGrid
        /\ \A i \in DOMAIN writes : writes[i] = 1
        /\ Len(stack) <= Cardinality(smearedGrid)
        /\ \A k \in 1..Len(stack) : Written(stack[k][2] * 80 + stack[k][1]) = 1)
  /\ (dpc = "fill" ~> (dpc = "scan" /\ stack = <<>>))
  /\ (dpc = "dilate" ~> dpc = "done")

\* C27 witness: two blobs of 9 and 15 cells were filled, every active cell
\* was pushed once, and the work list is empty
C27_Witness ==
  /\ dpc = "filter" /\ stack = <<>>
  /\ grid = {gridW, gridW + 6}
  /\ Cardinality(smearedGrid) = 24
  /\ DOMAIN writes = smearedGrid
  /\ Len(blobBounds) = 2 /\ blobBounds[1].count = 9 /\ blobBounds[2].count = 15

\* the rectangles a scan of a page can give: relative ones scaled with the
\* natural dimensions of the page, or the ones detected on it
RectsOn(page) ==
  {naturalCropOf(rel, page.width, page.height) : rel \in RelRects} \cup DetectedRects(page)

\* C28: every extraction made by a scan (handleGeminiScan, handleAutoDetect)
\* was cropped from the page its sourceImageIndex records, and its
\* naturalCrop was scaled with the natural dimensions of that page, also
\* when another page is selected while the scan waits
C28_ScanMatchesPage ==
  \A k \in 1..Len(extractions) :
    LET ex == extractions[k]
        page == images[ex.sourceImageIndex + 1]
    IN /\ ex.naturalCrop \in RectsOn(page)
       /\ ex.imageUrl = cropImage(page, ex.naturalCrop, ex.settings, NoMask)

\* C28 witness: a scan begun on the first page has stored, for the first
\* page, the right half of the second page
C28_Witness ==
  /\ scan = NoScan /\ selectedImageIndex = 1
  /\ Len(extractions) = 1
  /\ extractions[1].sourceImageIndex = 0
  /\ extractions[1].naturalCrop = Rect(8, 0, 8, 8)
  /\ extractions[1].imageUrl = cropImage(images[2], Rect(8, 0, 8, 8), defaultSettings, NoMask)
  /\ extractions[1].imageUrl # cropImage(images[1], Rect(8, 0, 8, 8), defaultSettings, NoMask)

\* C29: deletion is final: after deleteExtraction(id) no extraction with
\* that id is in the list again, also when an updateExtractionSettings or a
\* handleSaveEditedMask invocation for that id was waiting at the deletion
\* and completes after it
C29_DeletionIsFinal ==
  \A k \in 1..Len(extractions) : extractions[k].id \notin deleted

\* C29 witness: an extraction was deleted while an update and a save of it
\* were waiting
C29_Witness ==
  /\ extractions = <<>> /\ deleted = {"sig1"}
  /\ \E u \in calls, v \in calls :
       /\ u.kind = "update" /\ u.id = "sig1"
       /\ v.kind = "save" /\ v.id = "sig1"

====
